---- MODULE Spec2Model ----
(***************************************************************************)
(* Model of skimage/filter/denoise.py: the total-variation denoiser        *)
(* (tv_denoise, _tv_denoise_2d, _tv_denoise_3d) and the dispatcher of the  *)
(* bilateral filter (denoise_bilateral).                                   *)
(*                                                                         *)
(* Floating-point numbers are IEEE-754 doubles, computed bit for bit: a    *)
(* double is the record [s, e, hi, lo] of value (-1)^s * (hi * 2^28 + lo)  *)
(* * 2^e with a 53-bit significand (2^52 <= hi * 2^28 + lo < 2^53), or a   *)
(* signed zero (hi = lo = 0); every operation rounds its exact result to   *)
(* the nearest double, ties to even.  The values of the runs modelled stay *)
(* finite and normal.                                                      *)
(* ndarrays live in a heap of buffers (heap: buffer id -> contents); a     *)
(* Python name is bound to a buffer id (loc), so that "x = a + b" (a new   *)
(* buffer) and "x += a" (a write into the buffer x is bound to) differ.    *)
(***************************************************************************)
EXTENDS Integers, Sequences, FiniteSets, TLC

\* largest n_iter_max a call is made with
MaxIter == 4
\* largest rank (ndim) of an image passed to tv_denoise / denoise_bilateral
MaxRank == 4
\* largest axis length of an image passed to denoise_bilateral
MaxLen == 2

-----------------------------------------------------------------------------
(* Double-precision arithmetic.  Significands are handled as two words of 28
   bits (sums, differences) or as limbs of 14 bits, least significant first
   (products, quotients, square roots), so that no intermediate integer
   exceeds 31 bits. *)

\* one statement after another: S applied to the value of v, v evaluated once
Then(v, S(_)) == CHOOSE r \in {S(x) : x \in {v}} : TRUE

\* Pow2[k + 1] = 2^k
Pow2 == <<1, 2, 4, 8, 16, 32, 64, 128, 256, 512, 1024, 2048, 4096, 8192, 16384,
          32768, 65536, 131072, 262144, 524288, 1048576, 2097152, 4194304,
          8388608, 16777216, 33554432, 67108864, 134217728, 268435456,
          536870912, 1073741824>>
\* the base of a limb, 2^14, and of a word, 2^28
Base == Pow2[15]
Word == Pow2[29]

\* the number of bits of x >= 0 (0 for x = 0)
BitsIn(x, lo, hi) == CHOOSE k \in lo..hi : x < Pow2[k + 1] /\ (k = 0 \/ x >= Pow2[k])
Bits(x) == IF x < Pow2[15] THEN (IF x < Pow2[8] THEN BitsIn(x, 0, 7) ELSE BitsIn(x, 8, 14))
           ELSE (IF x < Pow2[22] THEN BitsIn(x, 15, 21) ELSE BitsIn(x, 22, 29))

\* the zero of sign s
Zero(s) == [s |-> s, e |-> 0, hi |-> 0, lo |-> 0]
IsZero(x) == x.hi = 0

\* the double nearest to S * 2^e for S = s1 * Word + s0 in [2^55, 2^56), whose
\* lowest bit stands for any nonzero bits below it
Round56(s, e, s1, s0) ==
    Then((s0 \div 8) + (s1 % 8) * Pow2[26], LAMBDA lo :
        IF ~((s0 % 8) > 4 \/ ((s0 % 8) = 4 /\ lo % 2 = 1))
        THEN [s |-> s, e |-> e + 3, hi |-> s1 \div 8, lo |-> lo]
        ELSE IF lo + 1 < Word THEN [s |-> s, e |-> e + 3, hi |-> s1 \div 8, lo |-> lo + 1]
        ELSE IF (s1 \div 8) + 1 < Pow2[26]
             THEN [s |-> s, e |-> e + 3, hi |-> (s1 \div 8) + 1, lo |-> 0]
        ELSE [s |-> s, e |-> e + 4, hi |-> Pow2[25], lo |-> 0])

\* x with its lowest bit set when nonzero bits were shifted out below it
Jam(x, lost) == IF lost /\ x % 2 = 0 THEN x + 1 ELSE x

\* <<y1, y0>> shifted right by d bits
ShiftJam(y1, y0, d) ==
    IF d = 0 THEN <<y1, y0>>
    ELSE IF d < 28
    THEN <<y1 \div Pow2[d + 1],
           Jam((y0 \div Pow2[d + 1]) + (y1 % Pow2[d + 1]) * Pow2[29 - d],
               y0 % Pow2[d + 1] # 0)>>
    ELSE IF d < 56
    THEN <<0, Jam(y1 \div Pow2[d - 27], y0 # 0 \/ y1 % Pow2[d - 27] # 0)>>
    ELSE <<0, 1>>

\* <<t1, t0>> shifted left by sh bits
ShiftUp(t1, t0, sh) ==
    IF sh < 28
    THEN <<(t1 % Pow2[29 - sh]) * Pow2[sh + 1] + (t0 \div Pow2[29 - sh]),
           (t0 % Pow2[29 - sh]) * Pow2[sh + 1]>>
    ELSE <<t0 * Pow2[sh - 27], 0>>

\* the two words of the significand of x times 8 (three guard bits)
Hi3(x) == x.hi * 8 + (x.lo \div Pow2[26])
Lo3(x) == (x.lo % Pow2[26]) * 8

\* |x| + Y and |x| - Y for the aligned significand Y of the smaller operand
SumMag(x, Y) ==
    Then(Lo3(x) + Y[2], LAMBDA t0 :
    Then(Hi3(x) + Y[1] + (t0 \div Word), LAMBDA t1 :
        IF t1 < Word THEN Round56(x.s, x.e - 3, t1, t0 % Word)
        ELSE Round56(x.s, x.e - 2, t1 \div 2,
                     Jam(((t0 % Word) \div 2) + (t1 % 2) * Pow2[28], t0 % 2 = 1))))

DiffNorm(x, t1, t0, sh) ==
    Then(ShiftUp(t1, t0, sh), LAMBDA n : Round56(x.s, x.e - 3 - sh, n[1], n[2]))

DiffMag(x, Y) ==
    Then(Lo3(x) - Y[2], LAMBDA t0 :
    Then(Hi3(x) - Y[1] - (IF t0 < 0 THEN 1 ELSE 0), LAMBDA t1 :
        IF t1 = 0 /\ t0 = 0 THEN Zero(0)
        ELSE IF t1 > 0 THEN DiffNorm(x, t1, (t0 + Word) % Word, 28 - Bits(t1))
        ELSE DiffNorm(x, 0, (t0 + Word) % Word, 56 - Bits((t0 + Word) % Word))))

\* x + y for |x| >= |y| > 0
AddMag(x, y) ==
    Then(ShiftJam(Hi3(y), Lo3(y), x.e - y.e), LAMBDA Y :
        IF x.s = y.s THEN SumMag(x, Y) ELSE DiffMag(x, Y))

\* |x| <= |y| for nonzero x, y
MagLe(x, y) == \/ x.e < y.e
               \/ x.e = y.e /\ (x.hi < y.hi \/ (x.hi = y.hi /\ x.lo <= y.lo))

\* x + y: the sum of two zeros is -0 only when both are -0; an exact
\* cancellation gives +0
AddV(x, y) ==
    IF IsZero(x) THEN (IF IsZero(y) THEN Zero(IF x.s = 1 /\ y.s = 1 THEN 1 ELSE 0) ELSE y)
    ELSE IF IsZero(y) THEN x
    ELSE IF MagLe(y, x) THEN AddMag(x, y) ELSE AddMag(y, x)

\* -x, |x|, a + b, a - b
FNeg(x) == [x EXCEPT !.s = 1 - @]
FAbs(x) == [x EXCEPT !.s = 0]
FAdd(a, b) == Then(a, LAMBDA x : Then(b, LAMBDA y : AddV(x, y)))
FSub(a, b) == Then(a, LAMBDA x : Then(b, LAMBDA y : AddV(x, FNeg(y))))

-----------------------------------------------------------------------------
\* the four limbs of the significand of x
Limbs(x) == <<x.lo % Base, x.lo \div Base, x.hi % Base, x.hi \div Base>>

\* the limbs of the number with column sums cols, from column i on, c carried
RECURSIVE CarryFrom(_, _, _)
CarryFrom(cols, i, c) ==
    IF i > Len(cols) THEN <<c>>
    ELSE Then(cols[i] + c, LAMBDA t : <<t % Base>> \o CarryFrom(cols, i + 1, t \div Base))

\* the eight limbs of the product of the significands a and b
Product(a, b) ==
    Then(<<a[1] * b[1],
           a[1] * b[2] + a[2] * b[1],
           a[1] * b[3] + a[2] * b[2] + a[3] * b[1],
           a[1] * b[4] + a[2] * b[3] + a[3] * b[2] + a[4] * b[1],
           a[2] * b[4] + a[3] * b[3] + a[4] * b[2],
           a[3] * b[4] + a[4] * b[3],
           a[4] * b[4]>>, LAMBDA cols : CarryFrom(cols, 1, 0))

\* the product p, of 98 + b bits, rounded
MulRound(s, e, p, b) ==
    Round56(s, e + 42 + b,
            (p[6] \div Pow2[b + 1]) + p[7] * Pow2[15 - b] + (p[8] % Pow2[b + 1]) * Pow2[29 - b],
            Jam((p[4] \div Pow2[b + 1]) + p[5] * Pow2[15 - b] + (p[6] % Pow2[b + 1]) * Pow2[29 - b],
                p[1] # 0 \/ p[2] # 0 \/ p[3] # 0 \/ p[4] % Pow2[b + 1] # 0))

\* x * y
MulV(x, y) ==
    IF IsZero(x) \/ IsZero(y) THEN Zero((x.s + y.s) % 2)
    ELSE Then(Limbs(x), LAMBDA a : Then(Limbs(y), LAMBDA b :
         Then(Product(a, b), LAMBDA p :
              MulRound((x.s + y.s) % 2, x.e + y.e, p, IF p[8] >= Pow2[8] THEN 8 ELSE 7))))

FMul(a, b) == Then(a, LAMBDA x : Then(b, LAMBDA y : MulV(x, y)))

-----------------------------------------------------------------------------
\* the limbs of w - q * v from limb i on, k borrowed; the last one keeps the sign
RECURSIVE MulSubFrom(_, _, _, _, _)
MulSubFrom(w, v, q, i, k) ==
    Then(w[i] - k - q * (IF i <= Len(v) THEN v[i] ELSE 0), LAMBDA t :
        IF i = Len(w) THEN <<t>>
        ELSE <<t % Base>> \o MulSubFrom(w, v, q, i + 1, -(t \div Base)))

\* the estimate of a quotient digit (Knuth, algorithm D, step D3)
RECURSIVE QHat(_, _, _, _, _)
QHat(q, num, v4, v3, w3) ==
    IF num - q * v4 < Base /\ q * v3 > (num - q * v4) * Base + w3
    THEN QHat(q - 1, num, v4, v3, w3) ELSE q

QEst(w, v) ==
    Then(w[5] * Base + w[4], LAMBDA num :
    Then(IF num \div v[4] < Base THEN num \div v[4] ELSE Base - 1, LAMBDA q :
        QHat(q, num, v[4], v[3], w[3])))

\* one quotient digit of the window w (5 limbs) by v (4 limbs), and the remainder
DivDigit(w, v) ==
    Then(QEst(w, v), LAMBDA qh :
    Then(MulSubFrom(w, v, qh, 1, 0), LAMBDA r :
        IF r[5] < 0 THEN [q |-> qh - 1, w |-> MulSubFrom(r, v, -1, 1, 0)]
        ELSE [q |-> qh, w |-> r]))

\* the quotient limbs and the remainder of u by v (v[4] >= Base / 2)
RECURSIVE DivFrom(_, _)
DivFrom(u, v) ==
    IF Len(u) < 5 THEN [q |-> <<>>, r |-> u]
    ELSE Then(SubSeq(u, Len(u) - 4, Len(u)), LAMBDA w :
         Then(DivDigit(w, v), LAMBDA d :
         Then(SubSeq(u, 1, Len(u) - 5) \o SubSeq(d.w, 1, 4), LAMBDA u2 :
         Then(DivFrom(u2, v), LAMBDA rec :
              [q |-> rec.q \o <<d.q>>, r |-> rec.r]))))

\* the limbs of a * 2^k (k < 14) for the four limbs a
Up(a, k) ==
    <<(a[1] % Pow2[15 - k]) * Pow2[k + 1],
      (a[2] % Pow2[15 - k]) * Pow2[k + 1] + (a[1] \div Pow2[15 - k]),
      (a[3] % Pow2[15 - k]) * Pow2[k + 1] + (a[2] \div Pow2[15 - k]),
      (a[4] % Pow2[15 - k]) * Pow2[k + 1] + (a[3] \div Pow2[15 - k])>>

\* the significand of x times 2^(56 + k), eight limbs
Up8(x, k) == Then(Limbs(x), LAMBDA a : <<0, 0, 0, 0>> \o Up(a, k))

\* the quotient d, of 56 bits, rounded; a nonzero remainder is sticky
DivRound(s, e, d) ==
    Round56(s, e, d.q[3] + d.q[4] * Base,
            Jam(d.q[1] + d.q[2] * Base, \E i \in 1..4 : d.r[i] # 0))

\* x / y for y # 0
DivV(x, y) ==
    IF IsZero(x) THEN Zero((x.s + y.s) % 2)
    ELSE Then(IF MagLe([y EXCEPT !.e = x.e], x) THEN 2 ELSE 3, LAMBDA k :
         Then(Up8(x, k), LAMBDA u :
         Then(Up(Limbs(y), 3), LAMBDA v :
         Then(DivFrom(u, v), LAMBDA d :
              DivRound((x.s + y.s) % 2, x.e - y.e - 53 - k, d)))))

FDiv(a, b) == Then(a, LAMBDA x : Then(b, LAMBDA y : DivV(x, y)))

-----------------------------------------------------------------------------
\* the integer square root of x by Newton's iteration from g > sqrt(x)
RECURSIVE ISqrtFrom(_, _)
ISqrtFrom(x, g) ==
    Then((g + (x \div g)) \div 2, LAMBDA y : IF y < g THEN ISqrtFrom(x, y) ELSE g)

\* the largest digit d <= dh with (2 * R * Base + d) * d <= w, R given by the
\* limbs of 2 * R, and what is left of w
RECURSIVE RootDigit(_, _, _)
RootDigit(w, r2, dh) ==
    Then(<<dh>> \o r2, LAMBDA v :
    Then(MulSubFrom(w, v, dh, 1, 0), LAMBDA r :
        IF r[Len(r)] < 0 THEN RootDigit(w, r2, dh - 1) ELSE [d |-> dh, w |-> r]))

\* an upper estimate of the next digit of the root
DigitEst(w, r2) ==
    Then(((w[Len(w)] * Base + w[Len(w) - 1]) * Base + w[Len(w) - 2]) \div r2[Len(r2)] + 1, LAMBDA d :
        IF d < Base THEN d ELSE Base - 1)

\* the root of n (limbs from pair i down), r2 the limbs of twice the root so
\* far and w what is left
RECURSIVE RootFrom(_, _, _, _)
RootFrom(n, i, r2, w) ==
    IF i = 0 THEN [r2 |-> r2, w |-> w]
    ELSE Then(<<n[2 * i - 1], n[2 * i]>> \o w, LAMBDA w2 :
         Then(DigitEst(w2, r2), LAMBDA dh :
         Then(RootDigit(w2, r2, dh), LAMBDA t :
         Then(<<2 * t.d>> \o r2, LAMBDA r3 :
         Then(SubSeq(t.w, 1, Len(r3) + 1), LAMBDA w3 :
              RootFrom(n, i - 1, r3, w3))))))

\* the integer square root of the eight limbs n, digit by digit, as the limbs
\* of twice the root, and what is left
BigSqrt(n) ==
    Then(n[8] * Base + n[7], LAMBDA top :
    Then(ISqrtFrom(top, Base), LAMBDA d :
    Then(<<(top - d * d) % Base, (top - d * d) \div Base>>, LAMBDA w :
        RootFrom(n, 3, <<2 * d>>, w))))

\* the root t, of 56 bits, rounded
SqrtRound(e, t) ==
    Round56(0, e, (t.r2[3] \div 2) + (t.r2[4] \div 2) * Base,
            Jam((t.r2[1] \div 2) + (t.r2[2] \div 2) * Base, \E i \in 1..Len(t.w) : t.w[i] # 0))

\* the square root of x >= 0
SqrtV(x) ==
    IF IsZero(x) THEN x
    ELSE Then(IF x.e % 2 = 0 THEN 2 ELSE 3, LAMBDA k :
         Then(Up8(x, k), LAMBDA n :
         Then(BigSqrt(n), LAMBDA t : SqrtRound((x.e - 56 - k) \div 2, t))))

FSqrt(a) == Then(a, LAMBDA x : SqrtV(x))

-----------------------------------------------------------------------------
\* -1, 0, 1 as x < y, x = y, x > y; the two zeros are equal
CmpV(x, y) ==
    IF IsZero(x) /\ IsZero(y) THEN 0
    ELSE IF IsZero(x) THEN (IF y.s = 0 THEN -1 ELSE 1)
    ELSE IF IsZero(y) THEN (IF x.s = 0 THEN 1 ELSE -1)
    ELSE IF x.s # y.s THEN (IF x.s = 0 THEN 1 ELSE -1)
    ELSE IF x.e = y.e /\ x.hi = y.hi /\ x.lo = y.lo THEN 0
    ELSE IF MagLe(x, y) THEN (IF x.s = 0 THEN -1 ELSE 1)
    ELSE (IF x.s = 0 THEN 1 ELSE -1)

FCmp(a, b) == Then(a, LAMBDA x : Then(b, LAMBDA y : CmpV(x, y)))
FLt(a, b) == FCmp(a, b) < 0
FLe(a, b) == FCmp(a, b) <= 0

\* float(n) for an integer 0 <= n < 2^29
FromInt(n) ==
    IF n = 0 THEN Zero(0)
    ELSE Then(Bits(n), LAMBDA b :
            IF b <= 25 THEN [s |-> 0, e |-> b - 53, hi |-> n * Pow2[26 - b], lo |-> 0]
            ELSE [s |-> 0, e |-> b - 53, hi |-> n \div Pow2[b - 24],
                  lo |-> (n % Pow2[b - 24]) * Pow2[54 - b]])

-----------------------------------------------------------------------------
(* ndarrays: a shape is a sequence of axis lengths, the contents a function
   from the index tuples of the shape to doubles (to integers for an image of
   bytes) *)

RECURSIVE SeqMax(_)
SeqMax(s) == IF s = <<>> THEN 1
             ELSE LET m == SeqMax(Tail(s)) IN IF Head(s) > m THEN Head(s) ELSE m

Idx(sh) == {ix \in [1..Len(sh) -> 1..SeqMax(sh)] : \A a \in 1..Len(sh) : ix[a] <= sh[a]}

\* the number of elements from one index of axis a to the next, in C order
RECURSIVE Stride(_, _)
Stride(sh, a) == IF a >= Len(sh) THEN 1 ELSE sh[a + 1] * Stride(sh, a + 1)

\* im.size
Size(sh) == Stride(sh, 0)

\* the index of element n (from 0) of the buffer, in C order: the last axis
\* runs fastest
CIndex(sh, n) == [a \in 1..Len(sh) |-> ((n \div Stride(sh, a)) % sh[a]) + 1]

\* ndarray.sum() of an array of fewer than 8 elements: the elements added one
\* after another in the order of the buffer
RECURSIVE SumFrom(_, _, _, _)
SumFrom(a, sh, n, acc) ==
    IF n >= Size(sh) THEN acc
    ELSE SumFrom(a, sh, n + 1, FAdd(acc, a[CIndex(sh, n)]))

Sum(a, sh) == SumFrom(a, sh, 0, Zero(0))

\* np.zeros_like(a)
zeros_like(a) == [ix \in DOMAIN a |-> Zero(0)]

Neg(a) == [ix \in DOMAIN a |-> FNeg(a[ix])]
Add(a, b) == [ix \in DOMAIN a |-> FAdd(a[ix], b[ix])]
Sub(a, b) == [ix \in DOMAIN a |-> FSub(a[ix], b[ix])]

\* a ** 2
Sq(a) == [ix \in DOMAIN a |-> FMul(a[ix], a[ix])]

\* the array after  d[1:] += p[:-1]  along axis ax (d[:, 1:] += p[:, :-1], ...)
ShiftAdd(d, p, ax) ==
    [ix \in DOMAIN d |->
        IF ix[ax] > 1 THEN FAdd(d[ix], p[[ix EXCEPT ![ax] = @ - 1]]) ELSE d[ix]]

\* the array after  g[:-1] = np.diff(out, axis=ax): the last entry along the
\* axis is not written
DiffInto(g, out, sh, ax) ==
    [ix \in DOMAIN g |->
        IF ix[ax] < sh[ax] THEN FSub(out[[ix EXCEPT ![ax] = @ + 1]], out[ix]) ELSE g[ix]]

\* np.sqrt(a)
Sqrt(a) == [ix \in DOMAIN a |-> FSqrt(a[ix])]

\* a * c, a + c  for a scalar c
MulScalar(a, c) == Then(c, LAMBDA v : [ix \in DOMAIN a |-> FMul(a[ix], v)])
AddScalar(a, c) == Then(c, LAMBDA v : [ix \in DOMAIN a |-> FAdd(a[ix], v)])

\* a /= b left out
DivArrSkipped(a, b) == a

\* a / b  for an array b
DivArr(a, b) == [ix \in DOMAIN a |-> FDiv(a[ix], b[ix])]

-----------------------------------------------------------------------------
(* Constants and inputs of the calls *)

\* 1., 0.5
One == FromInt(1)
Half == FDiv(FromInt(1), FromInt(2))

\* the descent steps: the literal 0.25, and 1. / 6. as the division computes it
Step2d == FDiv(FromInt(1), FromInt(4))
Step3d == FDiv(FromInt(1), FromInt(6))

\* dtype kinds of the caller's image: "f" floating point, "u" unsigned 8-bit
Kinds == {"f", "u"}

\* weight (a Python number; 50 is the default of tv_denoise)
Weights == {0, 2, 50}

\* eps as the fraction num/den: 0.5 and the default 2.e-4
EpsValues == {[num |-> 1, den |-> 2], [num |-> 2, den |-> 10000]}

\* the double a decimal literal num/den denotes: the one nearest to it
EpsFloat(e) == FDiv(FromInt(e.num), FromInt(e.den))

\* the images given to tv_denoise: shape, dtype kind and the pixel values drawn
\* from (floats 0., 1., 10.; bytes 0 and 255); rank 2 and rank 3, and one
\* one-pixel image of every other rank up to MaxRank
TvInputs ==
    {[shape |-> <<1, 2>>, kind |-> "f", values |-> {0, 1, 10}],
     [shape |-> <<1, 2>>, kind |-> "u", values |-> {0, 255}],
     [shape |-> <<1, 3>>, kind |-> "f", values |-> {0, 1, 10}],
     [shape |-> <<2, 2>>, kind |-> "f", values |-> {0, 1}],
     [shape |-> <<1, 1, 2>>, kind |-> "f", values |-> {0, 1}],
     [shape |-> <<1, 1, 2>>, kind |-> "u", values |-> {0, 255}],
     [shape |-> <<1, 2, 2>>, kind |-> "f", values |-> {0, 1}]}
        \cup {[shape |-> [a \in 1..r |-> 1], kind |-> k,
               values |-> IF k = "f" THEN {0, 1} ELSE {0, 255}] :
                  r \in (0..MaxRank) \ {2, 3}, k \in Kinds}

\* the byte b of an unsigned 8-bit image: the integer b, not a double
Byte(b) == [s |-> 0, e |-> 0, hi |-> 0, lo |-> b]

\* the ndarray of kind k with the numbers raw: doubles for "f", bytes for "u"
AsArray(k, raw) ==
    [ix \in DOMAIN raw |-> IF k = "f" THEN FromInt(raw[ix]) ELSE Byte(raw[ix])]

\* shapes of the images given to denoise_bilateral
BilateralShapes == UNION {[1..r -> 1..MaxLen] : r \in 0..MaxRank}

Modes == {"constant", "wrap", "reflect", "nearest", "bogus", "Constant"}

-----------------------------------------------------------------------------
(* The heap of buffers and the names of a call frame *)

\* the buffer the caller's image lives in
CallerBuf == 1

Names == {"im", "px", "py", "pz", "gx", "gy", "gz", "d", "out", "norm"}

\* no name bound
NoLocals == [n \in Names |-> 0]

\* a frame is [h: the heap, l: name -> buffer id (0 = unbound), n: the next
\* fresh id, E: the local E]
V(f, name) == f.h[f.l[name]]

\* name = <expression>: the value goes into a fresh buffer and the name is
\* bound to it
Rebind(f, name, arr) ==
    [h |-> [b \in DOMAIN f.h \cup {f.n} |-> IF b = f.n THEN arr ELSE f.h[b]],
     l |-> [f.l EXCEPT ![name] = f.n],
     n |-> f.n + 1,
     E |-> f.E]

\* name[...] = ..., name += ..., name /= ...: the buffer the name is bound to
\* is overwritten
Update(f, name, arr) == [f EXCEPT !.h[f.l[name]] = arr]

\* buffers no name refers to any more are freed; the caller keeps its own
Collect(h, keep) == [b \in (DOMAIN h) \cap ({CallerBuf} \cup keep) |-> h[b]]

Bound(l) == {l[n] : n \in Names} \ {0}

-----------------------------------------------------------------------------
(* The optimizers *)

\* 0.5 / weight, for weight # 0
HalfOver(w) == FDiv(Half, FromInt(w))

\* lines 133-137 of _tv_denoise_2d: px, py, gx, gy, d = np.zeros_like(im)
Alloc2d(f) ==
    LET Z(g, name) == Rebind(g, name, zeros_like(V(g, "im")))
        f1 == Then(f, LAMBDA g : Z(g, "px"))
        f2 == Then(f1, LAMBDA g : Z(g, "py"))
        f3 == Then(f2, LAMBDA g : Z(g, "gx"))
        f4 == Then(f3, LAMBDA g : Z(g, "gy"))
    IN  Then(f4, LAMBDA g : Z(g, "d"))

\* lines 43-49 of _tv_denoise_3d: px, py, pz, gx, gy, gz, d = np.zeros_like(im)
Alloc3d(f) ==
    LET Z(g, name) == Rebind(g, name, zeros_like(V(g, "im")))
        f1 == Then(f, LAMBDA g : Z(g, "px"))
        f2 == Then(f1, LAMBDA g : Z(g, "py"))
        f3 == Then(f2, LAMBDA g : Z(g, "pz"))
        f4 == Then(f3, LAMBDA g : Z(g, "gx"))
        f5 == Then(f4, LAMBDA g : Z(g, "gy"))
        f6 == Then(f5, LAMBDA g : Z(g, "gz"))
    IN  Then(f6, LAMBDA g : Z(g, "d"))

\* out = im + d done in place:  im += d; out = im
AssignOutInPlace(f) ==
    [f EXCEPT !.h[f.l["im"]] = Add(V(f, "im"), V(f, "d")), !.l["out"] = f.l["im"]]

\* line 144 / line 57:  out = im + d
AssignOut(f) == Rebind(f, "out", Add(V(f, "im"), V(f, "d")))

\* lines 140-149 of _tv_denoise_2d: the divergence d, the estimate out, the
\* gradients, their norm and the energy E before its division by im.size
Primal2d(f, sh, w) ==
    LET f1 == Then(f, LAMBDA g : Rebind(g, "d", Sub(Neg(V(g, "px")), V(g, "py"))))
        f2 == Then(f1, LAMBDA g : Update(g, "d", ShiftAdd(V(g, "d"), V(g, "px"), 1)))
        f3 == Then(f2, LAMBDA g : Update(g, "d", ShiftAdd(V(g, "d"), V(g, "py"), 2)))
        f4 == Then(f3, LAMBDA g : AssignOut(g))
        f5 == Then(f4, LAMBDA g : [g EXCEPT !.E = Sum(Sq(V(g, "d")), sh)])
        f6 == Then(f5, LAMBDA g :
                     Update(g, "gx", DiffInto(V(g, "gx"), V(g, "out"), sh, 1)))
        f7 == Then(f6, LAMBDA g :
                     Update(g, "gy", DiffInto(V(g, "gy"), V(g, "out"), sh, 2)))
        f8 == Then(f7, LAMBDA g :
                     Rebind(g, "norm", Sqrt(Add(Sq(V(g, "gx")), Sq(V(g, "gy"))))))
    IN  Then(f8, LAMBDA g :
                 [g EXCEPT !.E = FAdd(@, FMul(FromInt(w), Sum(V(g, "norm"), sh)))])

\* lines 150-156 of _tv_denoise_2d, for weight # 0: the dual update and the
\* division of E by im.size
Dual2d(f, sh, w) ==
    LET f1 == Then(f, LAMBDA g : Update(g, "norm", MulScalar(V(g, "norm"), HalfOver(w))))
        f2 == Then(f1, LAMBDA g : Update(g, "norm", AddScalar(V(g, "norm"), One)))
        f3 == Then(f2, LAMBDA g :
                     Update(g, "px", Sub(V(g, "px"), MulScalar(V(g, "gx"), Step2d))))
        f4 == Then(f3, LAMBDA g : Update(g, "px", DivArr(V(g, "px"), V(g, "norm"))))
        f5 == Then(f4, LAMBDA g :
                     Update(g, "py", Sub(V(g, "py"), MulScalar(V(g, "gy"), Step2d))))
        f6 == Then(f5, LAMBDA g : Update(g, "py", DivArr(V(g, "py"), V(g, "norm"))))
    IN  Then(f6, LAMBDA g : [g EXCEPT !.E = FDiv(@, FromInt(Size(sh)))])

\* lines 52-64 of _tv_denoise_3d
Primal3d(f, sh, w) ==
    LET f1 == Then(f, LAMBDA g :
                     Rebind(g, "d", Sub(Sub(Neg(V(g, "px")), V(g, "py")), V(g, "pz"))))
        f2 == Then(f1, LAMBDA g : Update(g, "d", ShiftAdd(V(g, "d"), V(g, "px"), 1)))
        f3 == Then(f2, LAMBDA g : Update(g, "d", ShiftAdd(V(g, "d"), V(g, "py"), 2)))
        f4 == Then(f3, LAMBDA g : Update(g, "d", ShiftAdd(V(g, "d"), V(g, "pz"), 3)))
        f5 == Then(f4, LAMBDA g : AssignOut(g))
        f6 == Then(f5, LAMBDA g : [g EXCEPT !.E = Sum(Sq(V(g, "d")), sh)])
        f7 == Then(f6, LAMBDA g :
                     Update(g, "gx", DiffInto(V(g, "gx"), V(g, "out"), sh, 1)))
        f8 == Then(f7, LAMBDA g :
                     Update(g, "gy", DiffInto(V(g, "gy"), V(g, "out"), sh, 2)))
        f9 == Then(f8, LAMBDA g :
                     Update(g, "gz", DiffInto(V(g, "gz"), V(g, "out"), sh, 3)))
        f10 == Then(f9, LAMBDA g :
                      Rebind(g, "norm",
                             Sqrt(Add(Add(Sq(V(g, "gx")), Sq(V(g, "gy"))),
                                      Sq(V(g, "gz"))))))
    IN  Then(f10, LAMBDA g :
                  [g EXCEPT !.E = FAdd(@, FMul(FromInt(w), Sum(V(g, "norm"), sh)))])

\* lines 65-73 of _tv_denoise_3d, for weight # 0
Dual3d(f, sh, w) ==
    LET f1 == Then(f, LAMBDA g : Update(g, "norm", MulScalar(V(g, "norm"), HalfOver(w))))
        f2 == Then(f1, LAMBDA g : Update(g, "norm", AddScalar(V(g, "norm"), One)))
        f3 == Then(f2, LAMBDA g :
                     Update(g, "px", Sub(V(g, "px"), MulScalar(V(g, "gx"), Step3d))))
        f4 == Then(f3, LAMBDA g : Update(g, "px", DivArr(V(g, "px"), V(g, "norm"))))
        f5 == Then(f4, LAMBDA g :
                     Update(g, "py", Sub(V(g, "py"), MulScalar(V(g, "gy"), Step3d))))
        f6 == Then(f5, LAMBDA g : Update(g, "py", DivArr(V(g, "py"), V(g, "norm"))))
        f7 == Then(f6, LAMBDA g :
                     Update(g, "pz", Sub(V(g, "pz"), MulScalar(V(g, "gz"), Step3d))))
        f8 == Then(f7, LAMBDA g : Update(g, "pz", DivArr(V(g, "pz"), V(g, "norm"))))
    IN  Then(f8, LAMBDA g : [g EXCEPT !.E = FDiv(@, FromInt(Size(sh)))])

\* the stop test without np.abs, as the docstrings word it
StopTestSigned(E, Einit, Eprev, e) == FLt(FSub(Eprev, E), FMul(EpsFloat(e), Einit))

\* line 161 / line 78:  np.abs(E_previous - E) < eps * E_init
StopTest(E, Einit, Eprev, e) == FLt(FAbs(FSub(Eprev, E)), FMul(EpsFloat(e), Einit))

\* the convergence check with <= for <
ConvergenceCheckLe(it, E, Einit, Eprev, e) ==
    IF it = 0
    THEN [stop |-> FALSE, E_init |-> <<E>>, E_previous |-> <<E>>]
    ELSE IF FLe(FAbs(FSub(Eprev[1], E)), FMul(EpsFloat(e), Einit[1]))
         THEN [stop |-> TRUE, E_init |-> Einit, E_previous |-> Eprev]
         ELSE [stop |-> FALSE, E_init |-> Einit, E_previous |-> <<E>>]

\* lines 157-164 / lines 74-81: the convergence check of iteration it on the
\* energy E; an unset E_init or E_previous is <<>>, a set one <<value>>
ConvergenceCheck(it, E, Einit, Eprev, e) ==
    IF it = 0
    THEN [stop |-> FALSE, E_init |-> <<E>>, E_previous |-> <<E>>]
    ELSE IF StopTest(E, Einit[1], Eprev[1], e)
         THEN [stop |-> TRUE, E_init |-> Einit, E_previous |-> Eprev]
         ELSE [stop |-> FALSE, E_init |-> Einit, E_previous |-> <<E>>]

\* img_as_float of an unsigned 8-bit image: every sample divided by 255
img_as_float(a) == [ix \in DOMAIN a |-> FDiv(FromInt(a[ix].lo), FromInt(255))]

-----------------------------------------------------------------------------
(* The state *)

VARIABLES
    pc,          \* where the call is: "idle", "call2d", "call3d", "loop2d",
                 \* "loop3d", "break2d", "break3d", "returned", "raised"
    fn,          \* the entry point called: "", "tv_denoise", "denoise_bilateral"
    heap,        \* buffer id -> contents
    loc,         \* the names of the optimizer's frame -> buffer id (0: unbound)
    nextId,      \* the next fresh buffer id
    shape,       \* shape of the image passed in
    kind,        \* dtype kind of the image passed in
    weight, eps, n_iter_max,     \* the arguments of tv_denoise
    i, E, E_init, E_previous,    \* the scalars of the loop (<<>>: unbound)
    ret,         \* the buffer returned (0: none)
    err,         \* the exception raised ("": none)
    mode,        \* the mode argument of denoise_bilateral
    calls,       \* the calls made to the native routines: <<[func, shape, mode]>>
    optimizer,   \* history: the optimizer entered, "", "2d" or "3d"
    iters,       \* history: the number of loop bodies begun
    Es,          \* history: the energy E of every iteration that computed it
    outs,        \* history: the contents of out of every such iteration
    stopped,     \* history: the loop was left by break
    image0       \* history: the contents of the caller's image at the call

vars == <<pc, fn, heap, loc, nextId, shape, kind, weight, eps, n_iter_max,
          i, E, E_init, E_previous, ret, err, mode, calls,
          optimizer, iters, Es, outs, stopped, image0>>

args == <<shape, kind, weight, eps, n_iter_max, image0, fn, mode>>
loopVars == <<i, E, E_init, E_previous, iters, Es, outs, stopped>>

Init ==
    /\ pc = "idle"
    /\ fn = ""
    /\ heap = <<>>
    /\ loc = NoLocals
    /\ nextId = CallerBuf
    /\ shape = <<>>
    /\ kind = ""
    /\ weight = 0
    /\ eps = [num |-> 0, den |-> 1]
    /\ n_iter_max = 0
    /\ i = 0
    /\ E = <<>>
    /\ E_init = <<>>
    /\ E_previous = <<>>
    /\ ret = 0
    /\ err = ""
    /\ mode = ""
    /\ calls = <<>>
    /\ optimizer = ""
    /\ iters = 0
    /\ Es = <<>>
    /\ outs = <<>>
    /\ stopped = FALSE
    /\ image0 = <<>>

-----------------------------------------------------------------------------
(* tv_denoise *)

\* the branch on im.ndim without its else
DispatchNoElse(ndim) == IF ndim = 2 THEN "call2d" ELSE "call3d"

\* lines 235-241: the branch on im.ndim
Dispatch(ndim) ==
    IF ndim = 2 THEN "call2d" ELSE IF ndim = 3 THEN "call3d" ELSE "raised"

\* lines 231-233: the frame of tv_denoise once im is float: a float image is
\* passed on as it is, any other goes through img_as_float into a new buffer
Normalize(data, k) ==
    LET f0 == [h |-> [b \in {CallerBuf} |-> data],
               l |-> [NoLocals EXCEPT !["im"] = CallerBuf],
               n |-> CallerBuf + 1,
               E |-> Zero(0)]
    IN  IF k = "f" THEN f0 ELSE Rebind(f0, "im", img_as_float(data))

\* tv_denoise(im, weight, eps, n_iter_max), lines 231-241, up to the call of
\* the optimizer
tv_denoise(sh, data, k, w, e, n) ==
    /\ pc = "idle"
    /\ \E f \in {Normalize(data, k)}, to \in {Dispatch(Len(sh))} :
           /\ pc' = to
           /\ err' = IF to = "raised" THEN "ValueError" ELSE ""
           /\ heap' = IF to = "raised" THEN Collect(f.h, {}) ELSE f.h
           /\ loc' = IF to = "raised" THEN NoLocals ELSE f.l
           /\ nextId' = f.n
    /\ fn' = "tv_denoise"
    /\ shape' = sh
    /\ kind' = k
    /\ weight' = w
    /\ eps' = e
    /\ n_iter_max' = n
    /\ image0' = data
    /\ UNCHANGED <<loopVars, ret, mode, calls, optimizer>>

\* entry of _tv_denoise_2d (lines 133-138) or _tv_denoise_3d (lines 43-50):
\* the buffers and i = 0
Enter(from, to, opt, f) ==
    /\ pc = from
    /\ pc' = to
    /\ optimizer' = opt
    /\ \E g \in {f} :
          /\ heap' = g.h
          /\ loc' = g.l
          /\ nextId' = g.n
    /\ i' = 0
    /\ UNCHANGED <<args, E, E_init, E_previous, iters, Es, outs, stopped,
                   ret, err, calls>>

Frame == [h |-> heap, l |-> loc, n |-> nextId, E |-> Zero(0)]

tv_denoise_2d_enter == Enter("call2d", "loop2d", "2d", Alloc2d(Frame))

tv_denoise_3d_enter == Enter("call3d", "loop3d", "3d", Alloc3d(Frame))

\* the loop condition off by one
LoopCondLe(it, n) == it <= n

\* line 139 / line 51:  while i < n_iter_max
LoopCond(it, n) == it < n

\* one pass through the body of the while loop (lines 139-165 / 51-82): pr is
\* the frame after the lines up to the energy, du the frame after the dual
\* update and E /= im.size
Iterate(loopPc, breakPc, pr, du) ==
    /\ pc = loopPc
    /\ LoopCond(i, n_iter_max)
    /\ iters' = iters + 1
    /\ IF weight = 0
       THEN \* 0.5 / weight raises ZeroDivisionError
            \E p \in {pr} :
                /\ pc' = "raised"
                /\ err' = "ZeroDivisionError"
                /\ heap' = Collect(p.h, {})
                /\ loc' = NoLocals
                /\ nextId' = p.n
                /\ UNCHANGED <<i, E, E_init, E_previous, Es, outs, stopped>>
       ELSE \E u \in {du} :
            \E cc \in {ConvergenceCheck(i, u.E, E_init, E_previous, eps)} :
                /\ pc' = IF cc.stop THEN breakPc ELSE loopPc
                /\ i' = IF cc.stop THEN i ELSE i + 1
                /\ E' = <<u.E>>
                /\ E_init' = cc.E_init
                /\ E_previous' = cc.E_previous
                /\ heap' = Collect(u.h, Bound(u.l))
                /\ loc' = u.l
                /\ nextId' = u.n
                /\ Es' = Append(Es, u.E)
                /\ outs' = Append(outs, V(u, "out"))
                /\ stopped' = cc.stop
                /\ err' = err
    /\ UNCHANGED <<args, ret, calls, optimizer>>

tv_denoise_2d_iter ==
    Iterate("loop2d", "break2d", Primal2d(Frame, shape, weight),
            Dual2d(Primal2d(Frame, shape, weight), shape, weight))

tv_denoise_3d_iter ==
    Iterate("loop3d", "break3d", Primal3d(Frame, shape, weight),
            Dual3d(Primal3d(Frame, shape, weight), shape, weight))

\* line 166 / line 83: the buffer  return out  hands back (0: out is unbound)
ReturnValue(l) == l["out"]

\* the loop is over (i reached n_iter_max, or break): return out
Return(loopPc, breakPc) ==
    /\ \/ pc = loopPc /\ ~LoopCond(i, n_iter_max)
       \/ pc = breakPc
    /\ LET r == ReturnValue(loc)
       IN  IF r = 0
           THEN \* out was never assigned: UnboundLocalError
                /\ pc' = "raised"
                /\ err' = "UnboundLocalError"
                /\ ret' = 0
                /\ heap' = Collect(heap, {})
           ELSE /\ pc' = "returned"
                /\ err' = err
                /\ ret' = r
                /\ heap' = Collect(heap, {r})
    /\ loc' = NoLocals
    /\ UNCHANGED <<args, nextId, loopVars, calls, optimizer>>

tv_denoise_2d_return == Return("loop2d", "break2d")

tv_denoise_3d_return == Return("loop3d", "break3d")

-----------------------------------------------------------------------------
(* denoise_bilateral *)

\* the modes accepted, 'nearest' forgotten
ValidModesShort == {"constant", "wrap", "reflect"}

\* line 297: the modes accepted
ValidModes == {"constant", "wrap", "reflect", "nearest"}

\* line 300: ord(mode[0].upper())
ModeCode(m) ==
    IF m = "constant" THEN 67 ELSE IF m = "wrap" THEN 87
    ELSE IF m = "reflect" THEN 82 ELSE 78

\* np.squeeze(image): every axis of length 1 is removed
squeeze(sh) == SelectSeq(sh, LAMBDA n : n # 1)

\* lines 302-307: the native routine chosen and the shape of the array it gets
Select(sh) ==
    IF Len(sh) = 2 \/ (Len(sh) = 3 /\ sh[3] = 1)
    THEN [func |-> "_denoise_bilateral2d",
          shape |-> IF Len(sh) = 3 /\ sh[3] = 1 THEN squeeze(sh) ELSE sh]
    ELSE [func |-> "_denoise_bilateral3d", shape |-> sh]

\* line 308, np.ascontiguousarray(image): an array of at least one dimension,
\* so a 0-d array becomes one of shape (1,)
ascontiguousarray(sh) == IF sh = <<>> THEN <<1>> ELSE sh

\* denoise_bilateral(image, ..., mode, ...), lines 295-309
denoise_bilateral(sh, m) ==
    /\ pc = "idle"
    /\ fn' = "denoise_bilateral"
    /\ shape' = sh
    /\ mode' = m
    /\ IF m \notin ValidModes
       THEN /\ pc' = "raised"
            /\ err' = "ValueError"
            /\ calls' = calls
       ELSE /\ pc' = "returned"
            /\ err' = err
            /\ calls' = Append(calls, [func |-> Select(sh).func,
                                       shape |-> ascontiguousarray(Select(sh).shape),
                                       mode |-> ModeCode(m)])
    /\ UNCHANGED <<heap, loc, nextId, kind, weight, eps, n_iter_max, image0,
                   loopVars, ret, optimizer>>

-----------------------------------------------------------------------------

Next ==
    \/ /\ pc = "idle"
       /\ \E inp \in TvInputs, w \in Weights, e \in EpsValues, n \in 0..MaxIter :
             \E raw \in [Idx(inp.shape) -> inp.values] :
                \E data \in {AsArray(inp.kind, raw)} :
                    tv_denoise(inp.shape, data, inp.kind, w, e, n)
    \/ tv_denoise_2d_enter
    \/ tv_denoise_3d_enter
    \/ tv_denoise_2d_iter
    \/ tv_denoise_3d_iter
    \/ tv_denoise_2d_return
    \/ tv_denoise_3d_return
    \/ /\ pc = "idle"
       /\ \E sh \in BilateralShapes, m \in Modes : denoise_bilateral(sh, m)

Spec == Init /\ [][Next]_vars

\* the steps of a call under way
Run ==
    \/ tv_denoise_2d_enter
    \/ tv_denoise_3d_enter
    \/ tv_denoise_2d_iter
    \/ tv_denoise_3d_iter
    \/ tv_denoise_2d_return
    \/ tv_denoise_3d_return

\* a call runs to completion (one thread, nothing to wait for): its next step
\* is taken
FairSpec == Spec /\ WF_vars(Run)

-----------------------------------------------------------------------------
(* Properties *)

Tv == fn = "tv_denoise"
InLoop == pc \in {"loop2d", "loop3d", "break2d", "break3d"}
Ended == pc \in {"returned", "raised"}

\* eps * E_0 and the two stop statistics of iteration n (the n-th energy of Es
\* is that of iteration n - 1)
EpsE0 == FMul(EpsFloat(eps), Es[1])
AbsChange(n) == FAbs(FSub(Es[n - 1], Es[n]))
SignedChange(n) == FSub(Es[n - 1], Es[n])

\* C1: tv_denoise branches strictly on the rank: rank 2 runs the 2-D optimizer
\* and only it, rank 3 the 3-D optimizer and only it, and any other rank fails
\* with ValueError without entering an optimizer, running an iteration or
\* allocating any dual field (no buffer beyond the image and its float copy).
C1_RankDispatch ==
    Tv =>
        /\ Len(shape) = 2 =>
              /\ pc = "call2d" \/ optimizer = "2d"
              /\ pc \notin {"call3d", "loop3d", "break3d"} /\ optimizer # "3d"
              /\ err # "ValueError"
        /\ Len(shape) = 3 =>
              /\ pc = "call3d" \/ optimizer = "3d"
              /\ pc \notin {"call2d", "loop2d", "break2d"} /\ optimizer # "2d"
              /\ err # "ValueError"
        /\ Len(shape) \notin {2, 3} =>
              /\ pc = "raised" /\ err = "ValueError"
              /\ optimizer = "" /\ iters = 0 /\ Es = <<>>
              /\ loc = NoLocals
              /\ nextId <= CallerBuf + 2
              /\ DOMAIN heap = {CallerBuf}

C1_Witness ==
    /\ Tv /\ pc = "raised" /\ err = "ValueError"
    /\ Len(shape) = 4 /\ kind = "u" /\ n_iter_max = 2 /\ weight = 50

\* C2: iteration 0 never stops the loop and records E_init = E_previous = E;
\* at every iteration n >= 1 the loop stops exactly when
\* |E_previous - E| < eps * E_init, E_previous being the energy of iteration
\* n - 1 and E_init that of iteration 0; on stopping the out of that iteration
\* is returned, otherwise E_previous becomes E and the loop goes on.
C2_ConvergenceCheck ==
    Tv =>
        /\ stopped => Len(Es) >= 2
        /\ Len(Es) >= 1 => E_init = <<Es[1]>> /\ E = <<Es[Len(Es)]>>
        /\ Len(Es) = 1 => E_previous = <<Es[1]>> /\ (InLoop => pc \notin {"break2d", "break3d"} /\ i = 1)
        /\ \A n \in 2..Len(Es) :
              FLt(AbsChange(n), EpsE0) <=> (stopped /\ n = Len(Es))
        /\ (Len(Es) >= 2 /\ stopped) =>
              /\ E_previous = <<Es[Len(Es) - 1]>>
              /\ pc \in {"break2d", "break3d", "returned"}
              /\ pc = "returned" => heap[ret] = outs[Len(outs)]
        /\ (Len(Es) >= 2 /\ ~stopped) =>
              /\ E_previous = <<Es[Len(Es)]>>
              /\ InLoop => pc \in {"loop2d", "loop3d"} /\ i = Len(Es)

C2_Witness ==
    /\ Tv /\ pc = "returned" /\ stopped /\ Len(Es) = 3
    /\ FLt(Zero(0), Es[1]) /\ Es[2] # Es[1] /\ heap[ret] = outs[3] /\ outs[3] # outs[2]

\* C3 as the spec states it: with eps = 0.5, for every rank-2 or rank-3 image,
\* every positive weight and every n_iter_max >= 2, the loop runs at most 2
\* iterations.
C3_AtMostTwoIterations ==
    (Tv /\ eps = [num |-> 1, den |-> 2] /\ weight > 0 /\ Len(shape) \in {2, 3}
        /\ n_iter_max >= 2) => iters <= 2

\* C3, amended: with eps = 0.5 (positive weight, n_iter_max >= 2) the loop ends
\* after 2 iterations exactly when |E_0 - E_1| < 0.5 * E_0 or n_iter_max = 2;
\* otherwise (a constant image, E_0 = 0; an energy that more than halves) it
\* goes on to iteration 2.
C3_TwoIterationsIffHalved ==
    (Tv /\ eps = [num |-> 1, den |-> 2] /\ weight > 0 /\ Len(shape) \in {2, 3}
        /\ n_iter_max >= 2 /\ pc = "returned") =>
        /\ iters >= 2
        /\ iters = 2 <=> (FLt(FAbs(FSub(Es[1], Es[2])), FMul(Half, Es[1]))
                            \/ n_iter_max = 2)

C3_Witness ==
    /\ Tv /\ eps = [num |-> 1, den |-> 2] /\ weight > 0 /\ pc = "returned"
    /\ iters = 3 /\ FLt(Zero(0), Es[1]) /\ FLt(FMul(FromInt(2), Es[2]), Es[1])

\* C4 (safety): the loop never runs more than n_iter_max iterations, and a call
\* that returns without the stop test having stopped the loop has run exactly
\* n_iter_max iterations and returns the out of the last of them.
C4_Safety ==
    Tv =>
        /\ iters <= n_iter_max
        /\ (pc = "returned" /\ ~stopped) =>
              /\ iters = n_iter_max
              /\ Len(outs) = n_iter_max
              /\ heap[ret] = outs[n_iter_max]

\* C4: the optimizer loop always terminates (a call of tv_denoise under way
\* comes to its end), with the safety part above.
C4_TerminatesWithinCap == []C4_Safety /\ ((Tv /\ ~Ended) ~> Ended)

C4_Witness ==
    /\ Tv /\ pc = "returned" /\ ~stopped /\ iters = 4 /\ n_iter_max = 4
    /\ eps = [num |-> 2, den |-> 10000] /\ Es[4] # Es[3] /\ outs[4] # outs[3]

\* C5: denoise_bilateral with a mode other than 'constant', 'wrap', 'reflect',
\* 'nearest' raises before a native routine is selected or called; with one of
\* the four it raises nothing and calls exactly one native routine.
C5_ModeValidation ==
    fn = "denoise_bilateral" =>
        IF mode \in {"constant", "wrap", "reflect", "nearest"}
        THEN /\ pc = "returned" /\ err = ""
             /\ Len(calls) = 1
             /\ calls[1].func \in {"_denoise_bilateral2d", "_denoise_bilateral3d"}
        ELSE pc = "raised" /\ err = "ValueError" /\ calls = <<>>

C5_Witness ==
    fn = "denoise_bilateral" /\ mode = "bogus" /\ pc = "raised" /\ shape = <<2, 2>>

\* the buffers the optimizer writes in place (slice assignment, +=, -=, *=,
\* /=): the dual fields, the gradients, d and norm
Written == {loc[n] : n \in {"px", "py", "pz", "gx", "gy", "gz", "d", "norm"}}

\* the array the name is bound to is not what it was bound to before the step
Changed(name) ==
    loc[name] # 0 /\ loc'[name] # 0 /\ heap'[loc'[name]] # heap[loc[name]]

\* C6 (state part): the caller's buffer keeps the contents it had at the call,
\* the image the optimizer works on stays the (normalized) input, and the
\* buffer returned is not the caller's.
C6_InputKept ==
    Tv =>
        /\ heap[CallerBuf] = image0
        /\ loc["im"] # 0 =>
              heap[loc["im"]] = IF kind = "f" THEN image0 ELSE img_as_float(image0)
        /\ loc["out"] # 0 => loc["out"] \notin {CallerBuf, loc["im"]}
        /\ pc = "returned" => ret \notin {0, CallerBuf}

\* C6 as the spec states it: tv_denoise never writes to the caller's image: the
\* input buffer keeps its contents through every iteration, only px/py/pz,
\* gx/gy/gz, d and out change, and the out returned is a buffer distinct from
\* the input.
C6_OnlyDualGradDOutChange ==
    /\ []C6_InputKept
    /\ [][Tv => \A name \in Names :
                  Changed(name) =>
                      name \in {"px", "py", "pz", "gx", "gy", "gz", "d", "out"}]_vars

\* C6, amended: tv_denoise never writes to the caller's image: the input
\* buffer keeps its contents through every iteration, only px/py/pz, gx/gy/gz,
\* d, norm and out change (a buffer that outlives a step changes only if it is
\* one written in place), and the out returned is a buffer distinct from the
\* input.
C6_NoWriteToInput ==
    /\ []C6_InputKept
    /\ [][Tv => /\ \A name \in Names :
                      Changed(name) =>
                          name \in {"px", "py", "pz", "gx", "gy", "gz", "d",
                                    "norm", "out"}
                 /\ \A b \in (DOMAIN heap) \cap (DOMAIN heap') :
                      heap'[b] # heap[b] => b \in Written]_vars

C6_Witness ==
    /\ Tv /\ pc = "returned" /\ kind = "f" /\ iters = 3
    /\ heap[ret] # image0 /\ heap[CallerBuf] = image0

\* C7 as the docstrings state it: at every iteration n >= 1 at which
\* E_(n-1) - E_n < eps * E_0, the loop stops: that iteration is the last and the
\* loop is not about to run another.
C7_SignedStopRule ==
    Tv => \A n \in 2..Len(Es) :
            FLt(SignedChange(n), EpsE0) =>
                /\ n = Len(Es)
                /\ ~(pc \in {"loop2d", "loop3d"} /\ i < n_iter_max)

\* C8 as the spec states it: a call of tv_denoise that fails fails at entry,
\* before an optimizer is entered, a buffer of it allocated or an iteration run.
C8_ErrorsAtEntry ==
    (Tv /\ pc = "raised") =>
        optimizer = "" /\ iters = 0 /\ nextId <= CallerBuf + 2

\* the dual field at index ix: the components of the axes the optimizer has
Dual(ix) ==
    <<heap[loc["px"]][ix], heap[loc["py"]][ix],
      IF loc["pz"] = 0 THEN Zero(0) ELSE heap[loc["pz"]][ix]>>

\* the square of its local norm
LocalNormSq(ix) ==
    FAdd(FAdd(FMul(Dual(ix)[1], Dual(ix)[1]), FMul(Dual(ix)[2], Dual(ix)[2])),
         FMul(Dual(ix)[3], Dual(ix)[3]))

\* 2 * weight * step, for the step of the optimizer entered
TwoWeightStep ==
    FMul(FromInt(2 * weight), IF optimizer = "2d" THEN Step2d ELSE Step3d)

AfterUpdate == Tv /\ InLoop /\ iters >= 1 /\ weight > 0

\* C9 as the spec states it: after the dual update of every iteration the dual
\* field has local norm at most 1 at every pixel, for every positive weight.
C9_DualNormAtMostOne ==
    AfterUpdate => \A ix \in Idx(shape) : FLe(LocalNormSq(ix), One)

\* C9, amended: after the dual update of every iteration the dual field has
\* local norm at most 2 * weight * step at every pixel, that is weight / 2 in 2-D
\* and weight / 3 in 3-D (the squares are compared).
C9_DualNormAtMostWeightStep ==
    AfterUpdate =>
        \A ix \in Idx(shape) :
            FLe(LocalNormSq(ix), FMul(TwoWeightStep, TwoWeightStep))

C9_Witness ==
    /\ AfterUpdate /\ weight = 50 /\ iters = 3 /\ optimizer = "2d"
    /\ \E ix \in Idx(shape) : FLt(FromInt(4), LocalNormSq(ix))

\* C10 as the spec states it, for the images of rank 2 and 3: the array handed
\* to the 2-D native routine has rank 2 and the array handed to the 3-D native
\* routine has rank 3.
C10_RankHandedOver ==
    (fn = "denoise_bilateral" /\ Len(shape) \in {2, 3}) =>
        \A c \in 1..Len(calls) :
            /\ calls[c].func = "_denoise_bilateral2d" => Len(calls[c].shape) = 2
            /\ calls[c].func = "_denoise_bilateral3d" => Len(calls[c].shape) = 3

====
